---- MODULE Spec2Model ----
(***************************************************************************)
(* Model of toolkit/output_analysis.py: the Coulomb-scattering analysis of *)
(* a BDSIM output file (selection mask, angular kicks, number surface      *)
(* density, weighted cross section, JSON output).                          *)
(*                                                                         *)
(* Floating-point numbers are modelled as exact rationals n/d times a      *)
(* power a of Avogadro's number, [n, d, a], kept in lowest terms with      *)
(* d > 0.  Avogadro's number stays symbolic because its products do not    *)
(* fit the integers of the model checker.  Momenta in eV are counted in    *)
(* units of 1e8 eV for the same reason.                                    *)
(***************************************************************************)
EXTENDS Integers, Sequences, FiniteSets, TLC

VARIABLES pc, gas, format, trajectories, samplerData, n_primaries,
          primaries_dict, weights, mask_CoulombScat, delta_px, delta_py,
          number_surface_density, n_CoulombScat, cross_section_CoulombScat,
          output_analysis, files, opened, error

vars == <<pc, gas, format, trajectories, samplerData, n_primaries,
          primaries_dict, weights, mask_CoulombScat, delta_px, delta_py,
          number_surface_density, n_CoulombScat, cross_section_CoulombScat,
          output_analysis, files, opened, error>>

(***************************************************************************)
(* Bounds of the model.                                                    *)
(***************************************************************************)
MaxPrimaries == 3
MaxTraj == 2
MaxSteps == 2
MaxSamples == 2

(***************************************************************************)
(* Arithmetic.                                                             *)
(***************************************************************************)
Abs(i) == IF i < 0 THEN -i ELSE i

RECURSIVE GCD(_, _)
GCD(a, b) == IF b = 0 THEN a ELSE GCD(b, a % b)

Norm(n, d, a) ==
    IF n = 0 THEN [n |-> 0, d |-> 1, a |-> 0]
    ELSE LET g == GCD(Abs(n), Abs(d))
             s == IF d < 0 THEN -1 ELSE 1
         IN  [n |-> (s * n) \div g, d |-> (s * d) \div g, a |-> a]

Real(n, d) == Norm(n, d, 0)

Zero == Real(0, 1)
One == Real(1, 1)

\* the factors are reduced crosswise first, so that a product that fits is
\* computed without overflow
Mul(x, y) ==
    LET g1 == GCD(Abs(x.n), y.d)
        g2 == GCD(Abs(y.n), x.d)
    IN  IF x.n = 0 \/ y.n = 0 THEN Norm(0, 1, 0)
        ELSE Norm((x.n \div g1) * (y.n \div g2), (x.d \div g2) * (y.d \div g1), x.a + y.a)
Div(x, y) == Mul(x, Norm(y.d, y.n, -y.a))
Add(x, y) == Norm(x.n * y.d + y.n * x.d, x.d * y.d, IF x.n = 0 THEN y.a ELSE x.a)
Sub(x, y) == Norm(x.n * y.d - y.n * x.d, x.d * y.d, IF x.n = 0 THEN y.a ELSE x.a)
Positive(x) == x.n > 0

(***************************************************************************)
(* Constants of the script.                                                *)
(***************************************************************************)
\* 45.6e9 eV, in units of 1e8 eV
P0C == Real(456, 1)
\* the factor 1e9 (GeV to eV), in units of 1e8 eV
GeV == Real(10, 1)
N_A == [n |-> 1, d |-> 1, a |-> 1]
MM_H == Real(100784, 100000)
MM_CO == Real(2801, 100)
MM_CO2 == Real(4401, 100)
RHO_SOLID_H == Real(896, 100)
RHO_SOLID_CO == Real(896, 100)
RHO_SOLID_CO2 == Real(896, 100)
L_TARGET == Real(1, 10)

(***************************************************************************)
(* Optional values: << >> is "not assigned", <<v>> is the value v.         *)
(***************************************************************************)
None == << >>
Some(v) == <<v>>

(***************************************************************************)
(* numpy helpers.                                                          *)
(***************************************************************************)
\* arr[mask] with a boolean mask of the same length: the entries whose
\* mask entry is true, in order
RECURSIVE BoolIndex(_, _)
BoolIndex(arr, mask) ==
    IF arr = << >> THEN << >>
    ELSE IF Head(mask) THEN <<Head(arr)>> \o BoolIndex(Tail(arr), Tail(mask))
         ELSE BoolIndex(Tail(arr), Tail(mask))

\* np.any of a boolean array
NpAny(b) == \E k \in 1..Len(b) : b[k]

\* the builtin sum: 0 + a[1] + a[2] + ...
RECURSIVE SumFrom(_, _)
SumFrom(acc, arr) ==
    IF arr = << >> THEN acc ELSE SumFrom(Add(acc, Head(arr)), Tail(arr))

Sum(arr) == SumFrom(Zero, arr)

(***************************************************************************)
(* get_CoulombScat_processes                                               *)
(***************************************************************************)
\* type 2 and subtype 1 looked for separately
IsCoulombScatBroken(trajectory) ==
    /\ NpAny([k \in 1..Len(trajectory.postPT) |-> trajectory.postPT[k] = 2])
    /\ NpAny([k \in 1..Len(trajectory.postPST) |-> trajectory.postPST[k] = 1])

\* CoulombScat has PT=2 and PST=1
IsCoulombScat(trajectory) ==
    LET processType == trajectory.postPT
        processSubType == trajectory.postPST
    IN  NpAny([k \in 1..Len(processType) |->
                  (processType[k] = 2) /\ (processSubType[k] = 1)])

RECURSIVE MaskLoop(_, _, _)
MaskLoop(mask, trajs, index) ==
    IF index > Len(trajs) THEN mask
    ELSE MaskLoop(IF IsCoulombScat(trajs[index])
                  THEN [mask EXCEPT ![index] = TRUE] ELSE mask,
                  trajs, index + 1)

get_CoulombScat_processes(trajs) ==
    MaskLoop([i \in 1..Len(trajs) |-> FALSE], trajs, 1)

(***************************************************************************)
(* get_angular_kicks                                                       *)
(***************************************************************************)
Returned(v) == [raised |-> FALSE, value |-> Some(v), error |-> ""]
Raised(msg) == [raised |-> TRUE, value |-> None, error |-> msg]

\* delta without its "- 1"
ScaleBroken(slopes, p) ==
    [j \in 1..Len(slopes) |->
        LET delta == Div(Mul(p[j], GeV), P0C)
        IN  Mul(slopes[j], Add(One, delta))]

\* slopes * (1 + delta), delta = p*1e9 / P0C - 1, element by element
Scale(slopes, p) ==
    [j \in 1..Len(slopes) |->
        LET delta == Sub(Div(Mul(p[j], GeV), P0C), One)
        IN  Mul(slopes[j], Add(One, delta))]

\* yp read in the place of xp
SlopesXBroken(sd, mask) ==
    LET sel == BoolIndex(sd.yp, mask)
    IN  [j \in 1..Len(sel) |-> Sub(sel[j], Zero)]

\* samplerData['xp'][mask] - 0
SlopesX(sd, mask) ==
    LET sel == BoolIndex(sd.xp, mask)
    IN  [j \in 1..Len(sel) |-> Sub(sel[j], Zero)]

\* samplerData['yp'][mask] - 0
SlopesY(sd, mask) ==
    LET sel == BoolIndex(sd.yp, mask)
    IN  [j \in 1..Len(sel) |-> Sub(sel[j], Zero)]

\* an unknown format treated as 'bdsim'
FormatErrorBroken(fmt, delta_xp, delta_yp) ==
    Returned([x |-> delta_xp, y |-> delta_yp])

FormatError(fmt, delta_xp, delta_yp) ==
    Raised("ValueError: Format " \o fmt \o " not recognized.")

get_angular_kicks(sd, mask, fmt) ==
    LET delta_xp == SlopesX(sd, mask)
        delta_yp == SlopesY(sd, mask)
    IN  IF fmt = "bdsim" THEN Returned([x |-> delta_xp, y |-> delta_yp])
        ELSE IF fmt = "xsuite"
             THEN LET psel == BoolIndex(sd.p, mask)
                  IN  Returned([x |-> Scale(delta_xp, psel),
                                y |-> Scale(delta_yp, psel)])
             ELSE FormatError(fmt, delta_xp, delta_yp)

(***************************************************************************)
(* get_number_surface_density                                              *)
(***************************************************************************)
DensityH == Div(Mul(Mul(L_TARGET, N_A), RHO_SOLID_H), MM_H)
DensityCO == Div(Mul(Mul(L_TARGET, N_A), RHO_SOLID_CO), MM_CO)

\* the molar mass of CO used for CO2
DensityCO2Broken == Div(Mul(Mul(L_TARGET, N_A), RHO_SOLID_CO2), MM_CO)

DensityCO2 == Div(Mul(Mul(L_TARGET, N_A), RHO_SOLID_CO2), MM_CO2)

\* an unknown gas treated as H
GasErrorBroken(g) == Returned(DensityH)

GasError(g) == Raised("ValueError: Gas " \o g \o " not recognized.")

get_number_surface_density(g) ==
    IF g = "H" THEN Returned(DensityH)
    ELSE IF g = "CO" THEN Returned(DensityCO)
    ELSE IF g = "CO2" THEN Returned(DensityCO2)
    ELSE GasError(g)

(***************************************************************************)
(* save_to_json                                                            *)
(***************************************************************************)
\* a name that leaves the gas out
FileNameBroken(g) == "FCCee_z_CoulombScat.json"

FileName(g) == "FCCee_z_CoulombScat_" \o g \o ".json"

save_to_json(g, output, fs) == (FileName(g) :> output) @@ fs

(***************************************************************************)
(* Inputs.                                                                 *)
(***************************************************************************)
SeqsUpTo(S, n) == UNION {[1..k -> S] : k \in 0..n}

\* post-step process types and subtypes; (2, 1) is Coulomb scattering
PTCodes == {1, 2}
PSTCodes == {1, 2}

\* a trajectory: parallel arrays postPT, postPST of equal length
TrajectoriesUpTo(n) ==
    UNION {[postPT : [1..k -> PTCodes], postPST : [1..k -> PSTCodes]] : k \in 0..n}

\* the gas given on the command line
Gases == {"H", "CO", "CO2", "XX", "h"}

Formats == {"bdsim", "xsuite", "madx", "BDSIM"}

\* the trajectories a loaded file holds, per primary: no step; one Coulomb
\* step; type 2 and subtype 1 at different steps; transport, then two
\* Coulomb steps
LoadedTrajectories ==
    { [postPT |-> << >>, postPST |-> << >>],
      [postPT |-> <<2>>, postPST |-> <<1>>],
      [postPT |-> <<2, 1>>, postPST |-> <<2, 1>>],
      [postPT |-> <<1, 2, 2>>, postPST |-> <<1, 1, 1>>] }

\* the sampler entries a loaded file holds, per primary; p = 45.6 is the
\* reference momentum in GeV
LoadedSamples ==
    { [weight |-> Real(1, 1), xp |-> Real(1, 1000), yp |-> Real(-2, 1000), p |-> Real(456, 10)],
      [weight |-> Real(5, 2), xp |-> Real(-3, 1000), yp |-> Real(1, 1000), p |-> Real(228, 10)] }

\* the sampler entries get_angular_kicks is applied to on its own
KickSamples ==
    [weight : {Real(1, 1)},
     xp : {Real(1, 1000), Real(-3, 1000)},
     yp : {Real(-2, 1000), Real(5, 1000)},
     p : {Real(456, 10), Real(228, 10)}]

\* pybdsim.Data.SamplerData(output_data, 1).data: parallel arrays
SamplerArrays(entries) ==
    [weight |-> [i \in 1..Len(entries) |-> entries[i].weight],
     xp |-> [i \in 1..Len(entries) |-> entries[i].xp],
     yp |-> [i \in 1..Len(entries) |-> entries[i].yp],
     p |-> [i \in 1..Len(entries) |-> entries[i].p]]

EmptyData == SamplerArrays(<< >>)

\* the output an earlier run for CO left behind (one primary, no scattering)
EarlierOutput ==
    ("Primaries" :> [n_primaries |-> 1, Part_ID |-> -11, p0c |-> P0C]) @@
    ("Cross section" :> [CoulombScat |-> Zero]) @@
    ("Angular kicks" :> [n_CoulombScat |-> 0, delta_px |-> << >>, delta_py |-> << >>])

NoFiles == << >>
EarlierFiles == ("FCCee_z_CoulombScat_CO.json" :> EarlierOutput)

(***************************************************************************)
(* main, one action per step.                                              *)
(***************************************************************************)
Init ==
    /\ pc = "start"
    /\ gas \in Gases
    /\ format = "xsuite"
    /\ files \in {NoFiles, EarlierFiles}
    /\ opened = << >>
    /\ trajectories = << >>
    /\ samplerData = EmptyData
    /\ n_primaries = None
    /\ primaries_dict = None
    /\ weights = None
    /\ mask_CoulombScat = None
    /\ delta_px = None
    /\ delta_py = None
    /\ number_surface_density = None
    /\ n_CoulombScat = None
    /\ cross_section_CoulombScat = None
    /\ output_analysis = None
    /\ error = ""

\* lines 61-70: load the file, count the primaries, read the weights and
\* the trajectories
Load ==
    /\ pc = "start"
    /\ \E n \in 0..MaxPrimaries :
         \E trajs \in [1..n -> LoadedTrajectories], entries \in [1..n -> LoadedSamples] :
            /\ trajectories' = trajs
            /\ samplerData' = SamplerArrays(entries)
            /\ n_primaries' = Some(n)
            /\ primaries_dict' = Some([n_primaries |-> n, Part_ID |-> -11, p0c |-> P0C])
            /\ weights' = Some(SamplerArrays(entries).weight)
    /\ pc' = "select"
    /\ UNCHANGED <<gas, format, mask_CoulombScat, delta_px, delta_py,
                   number_surface_density, n_CoulombScat, cross_section_CoulombScat,
                   output_analysis, files, opened, error>>

\* line 72
SelectCoulomb ==
    /\ pc = "select"
    /\ mask_CoulombScat' = Some(get_CoulombScat_processes(trajectories))
    /\ pc' = "kicks"
    /\ UNCHANGED <<gas, format, trajectories, samplerData, n_primaries, primaries_dict,
                   weights, delta_px, delta_py, number_surface_density, n_CoulombScat,
                   cross_section_CoulombScat, output_analysis, files, opened, error>>

\* line 76.  With no primary the mask is np.array([]), an array of floats,
\* and indexing with it raises IndexError.
AngularKicks ==
    /\ pc = "kicks"
    /\ IF Len(trajectories) = 0
       THEN /\ pc' = "failed"
            /\ error' = "IndexError"
            /\ UNCHANGED <<delta_px, delta_py>>
       ELSE LET r == get_angular_kicks(samplerData, mask_CoulombScat[1], format)
            IN  IF r.raised
                THEN /\ pc' = "failed"
                     /\ error' = r.error
                     /\ UNCHANGED <<delta_px, delta_py>>
                ELSE /\ pc' = "density"
                     /\ delta_px' = Some(r.value[1].x)
                     /\ delta_py' = Some(r.value[1].y)
                     /\ UNCHANGED error
    /\ UNCHANGED <<gas, format, trajectories, samplerData, n_primaries, primaries_dict,
                   weights, mask_CoulombScat, number_surface_density, n_CoulombScat,
                   cross_section_CoulombScat, output_analysis, files, opened>>

\* the output file opened before the density is known
SurfaceDensityBroken ==
    /\ pc = "density"
    /\ opened' = Append(opened, FileName(gas))
    /\ files' = (FileName(gas) :> ("Primaries" :> primaries_dict[1])) @@ files
    /\ LET r == get_number_surface_density(gas)
       IN  IF r.raised
           THEN /\ pc' = "failed"
                /\ error' = r.error
                /\ UNCHANGED number_surface_density
           ELSE /\ pc' = "xsection"
                /\ number_surface_density' = r.value
                /\ UNCHANGED error
    /\ UNCHANGED <<gas, format, trajectories, samplerData, n_primaries, primaries_dict,
                   weights, mask_CoulombScat, delta_px, delta_py, n_CoulombScat,
                   cross_section_CoulombScat, output_analysis>>

\* line 78
SurfaceDensity ==
    /\ pc = "density"
    /\ LET r == get_number_surface_density(gas)
       IN  IF r.raised
           THEN /\ pc' = "failed"
                /\ error' = r.error
                /\ UNCHANGED number_surface_density
           ELSE /\ pc' = "xsection"
                /\ number_surface_density' = r.value
                /\ UNCHANGED error
    /\ UNCHANGED <<gas, format, trajectories, samplerData, n_primaries, primaries_dict,
                   weights, mask_CoulombScat, delta_px, delta_py, n_CoulombScat,
                   cross_section_CoulombScat, output_analysis, files, opened>>

\* the selected primaries counted, their weights ignored
WeightedCountBroken(w, mask) == Real(Len(BoolIndex(w, mask)), 1)

\* sum(weights[mask_CoulombScat])
WeightedCount(w, mask) == Sum(BoolIndex(w, mask))

\* n_CoulombScat / (n_primaries * number_surface_density)
CrossSectionValue(count, n, density) == Div(count, Mul(Real(n, 1), density))

\* lines 80-82; n_primaries is at least 1 here
CrossSection ==
    /\ pc = "xsection"
    /\ n_CoulombScat' = Some(WeightedCount(weights[1], mask_CoulombScat[1]))
    /\ cross_section_CoulombScat' =
          Some(CrossSectionValue(WeightedCount(weights[1], mask_CoulombScat[1]),
                                 n_primaries[1], number_surface_density[1]))
    /\ pc' = "output"
    /\ UNCHANGED <<gas, format, trajectories, samplerData, n_primaries, primaries_dict,
                   weights, mask_CoulombScat, delta_px, delta_py, number_surface_density,
                   output_analysis, files, opened, error>>

\* every primary counted
KickCountBroken(w, mask) == Len(w)

\* len(weights[mask_CoulombScat])
KickCount(w, mask) == Len(BoolIndex(w, mask))

\* lines 84-85
BuildOutput ==
    /\ pc = "output"
    /\ output_analysis' = Some(
          ("Primaries" :> primaries_dict[1]) @@
          ("Cross section" :> [CoulombScat |-> cross_section_CoulombScat[1]]) @@
          ("Angular kicks" :> [n_CoulombScat |-> KickCount(weights[1], mask_CoulombScat[1]),
                               delta_px |-> delta_px[1],
                               delta_py |-> delta_py[1]]))
    /\ pc' = "save"
    /\ UNCHANGED <<gas, format, trajectories, samplerData, n_primaries, primaries_dict,
                   weights, mask_CoulombScat, delta_px, delta_py, number_surface_density,
                   n_CoulombScat, cross_section_CoulombScat, files, opened, error>>

\* line 87
SaveToJson ==
    /\ pc = "save"
    /\ opened' = Append(opened, FileName(gas))
    /\ files' = save_to_json(gas, output_analysis[1], files)
    /\ pc' = "done"
    /\ UNCHANGED <<gas, format, trajectories, samplerData, n_primaries, primaries_dict,
                   weights, mask_CoulombScat, delta_px, delta_py, number_surface_density,
                   n_CoulombScat, cross_section_CoulombScat, output_analysis, error>>

Next ==
    \/ Load
    \/ SelectCoulomb
    \/ AngularKicks
    \/ SurfaceDensity
    \/ CrossSection
    \/ BuildOutput
    \/ SaveToJson

Spec == Init /\ [][Next]_vars

(***************************************************************************)
(* get_CoulombScat_processes applied to any list of trajectories.          *)
(***************************************************************************)
Unassigned ==
    /\ n_primaries = None
    /\ primaries_dict = None
    /\ weights = None
    /\ delta_px = None
    /\ delta_py = None
    /\ number_surface_density = None
    /\ n_CoulombScat = None
    /\ cross_section_CoulombScat = None
    /\ output_analysis = None
    /\ files = NoFiles
    /\ opened = << >>
    /\ error = ""

InitSelect ==
    /\ pc = "call"
    /\ trajectories \in SeqsUpTo(TrajectoriesUpTo(MaxSteps), MaxTraj)
    /\ gas = "H"
    /\ format = "xsuite"
    /\ samplerData = EmptyData
    /\ mask_CoulombScat = None
    /\ Unassigned

CallSelect ==
    /\ pc = "call"
    /\ mask_CoulombScat' = Some(get_CoulombScat_processes(trajectories))
    /\ pc' = "returned"
    /\ UNCHANGED <<gas, format, trajectories, samplerData, n_primaries, primaries_dict,
                   weights, delta_px, delta_py, number_surface_density, n_CoulombScat,
                   cross_section_CoulombScat, output_analysis, files, opened, error>>

NextSelect == CallSelect

SpecSelect == InitSelect /\ [][NextSelect]_vars

(***************************************************************************)
(* get_angular_kicks applied to any sampler, mask and format.              *)
(***************************************************************************)
InitKicks ==
    /\ pc = "call"
    /\ format \in Formats
    /\ \E entries \in SeqsUpTo(KickSamples, MaxSamples) :
          /\ samplerData = SamplerArrays(entries)
          /\ mask_CoulombScat \in {Some(m) : m \in [1..Len(entries) -> BOOLEAN]}
    /\ gas = "H"
    /\ trajectories = << >>
    /\ Unassigned

CallKicks ==
    /\ pc = "call"
    /\ LET r == get_angular_kicks(samplerData, mask_CoulombScat[1], format)
       IN  IF r.raised
           THEN /\ pc' = "raised"
                /\ error' = r.error
                /\ UNCHANGED <<delta_px, delta_py>>
           ELSE /\ pc' = "returned"
                /\ delta_px' = Some(r.value[1].x)
                /\ delta_py' = Some(r.value[1].y)
                /\ UNCHANGED error
    /\ UNCHANGED <<gas, format, trajectories, samplerData, n_primaries, primaries_dict,
                   weights, mask_CoulombScat, number_surface_density, n_CoulombScat,
                   cross_section_CoulombScat, output_analysis, files, opened>>

NextKicks == CallKicks

SpecKicks == InitKicks /\ [][NextKicks]_vars

(***************************************************************************)
(* Properties.                                                             *)
(***************************************************************************)
\* the selected indices of a mask, and the place of a selected index among them
Selected(mask) == {i \in 1..Len(mask) : mask[i]}
Rank(mask, i) == Cardinality({k \in 1..i : mask[k]})

\* sum of w[i] over a set of indices
RECURSIVE WeightOver(_, _)
WeightOver(w, S) ==
    IF S = {} THEN Zero
    ELSE LET i == CHOOSE i \in S : TRUE IN Add(w[i], WeightOver(w, S \ {i}))

HasCoulombStep(t) ==
    \E k \in 1..Len(t.postPT) : t.postPT[k] = 2 /\ t.postPST[k] = 1

KnownGases == {"H", "CO", "CO2"}

\* C1: get_CoulombScat_processes returns one boolean per trajectory, in
\* trajectory order; entry i is true exactly when some step k of trajectory i
\* has postPT[k] = 2 and postPST[k] = 1 at the same k; no match gives false,
\* never an error.
C1_MaskMatchesSteps ==
    pc = "returned" =>
        /\ error = ""
        /\ mask_CoulombScat # None
        /\ Len(mask_CoulombScat[1]) = Len(trajectories)
        /\ \A i \in 1..Len(trajectories) :
              /\ mask_CoulombScat[1][i] \in BOOLEAN
              /\ mask_CoulombScat[1][i] <=> HasCoulombStep(trajectories[i])

\* type 2 and subtype 1 at different steps of the first trajectory, a Coulomb
\* step after another step in the second
C1_Witness ==
    /\ pc = "returned"
    /\ Len(trajectories) = 2
    /\ trajectories[1] = [postPT |-> <<2, 1>>, postPST |-> <<2, 1>>]
    /\ trajectories[2] = [postPT |-> <<1, 2>>, postPST |-> <<2, 1>>]
    /\ mask_CoulombScat = Some(<<FALSE, TRUE>>)

\* C2: the cross section is (sum of weights[i] over the primaries i whose mask
\* entry is true) / (n_primaries * number_surface_density): a selected primary
\* contributes its weight once, an unselected one nothing.
C2_WeightedCrossSection ==
    pc \in {"output", "save", "done"} =>
        LET mask == mask_CoulombScat[1]
            total == WeightOver(samplerData.weight, Selected(mask))
        IN  /\ n_CoulombScat = Some(total)
            /\ Mul(cross_section_CoulombScat[1],
                   Mul(Real(n_primaries[1], 1), number_surface_density[1])) = total
            /\ pc # "output" =>
                  output_analysis[1]["Cross section"].CoulombScat =
                      cross_section_CoulombScat[1]

\* three primaries: the first with two Coulomb steps and weight 5/2, the
\* second unselected, the third with one Coulomb step
C2_Witness ==
    /\ pc = "done"
    /\ n_primaries = Some(3)
    /\ mask_CoulombScat = Some(<<TRUE, FALSE, TRUE>>)
    /\ trajectories[1] = [postPT |-> <<1, 2, 2>>, postPST |-> <<1, 1, 1>>]
    /\ samplerData.weight = <<Real(5, 2), Real(5, 2), Real(1, 1)>>
    /\ n_CoulombScat = Some(Real(7, 2))

\* C3: for H, CO and CO2 the number surface density is
\* L_TARGET * N_A * rho / M with rho = 8.96, L_TARGET = 0.1 and the molar mass
\* of that gas (1.00784, 28.01, 44.01), and it is positive.  With M in units of
\* 1e-5 g/mol: density * M = 89600 * N_A.
C3_SurfaceDensity ==
    (gas \in KnownGases /\ pc \in {"xsection", "output", "save", "done"}) =>
        LET d == number_surface_density[1]
            M == IF gas = "H" THEN 100784 ELSE IF gas = "CO" THEN 2801000 ELSE 4401000
        IN  /\ d.a = 1
            /\ d.n * M = d.d * 89600
            /\ d.n > 0 /\ d.d > 0
            /\ Positive(d)

C3_Witness ==
    /\ pc = "xsection"
    /\ gas = "CO2"
    /\ number_surface_density = Some([n |-> 448, d |-> 22005, a |-> 1])

\* C4: a gas outside {H, CO, CO2} makes get_number_surface_density fail with
\* an unrecognized-gas error; no density is returned, no default gas is used.
C4_UnknownGasFails ==
    gas \notin KnownGases =>
        /\ number_surface_density = None
        /\ pc \notin {"xsection", "output", "save", "done"}
        /\ (pc = "failed" /\ Len(trajectories) > 0) =>
              error = "ValueError: Gas " \o gas \o " not recognized."

C4_Witness ==
    /\ pc = "failed"
    /\ gas = "h"
    /\ error = "ValueError: Gas h not recognized."
    /\ delta_px # None

\* C5: with format 'bdsim' get_angular_kicks returns xp and yp restricted to
\* the selected primaries, element for element, in sampler order, unchanged.
C5_RawKicks ==
    (format = "bdsim" /\ pc # "call") =>
        LET mask == mask_CoulombScat[1]
        IN  /\ pc = "returned"
            /\ Len(delta_px[1]) = Cardinality(Selected(mask))
            /\ Len(delta_py[1]) = Cardinality(Selected(mask))
            /\ \A i \in Selected(mask) :
                  /\ delta_px[1][Rank(mask, i)] = samplerData.xp[i]
                  /\ delta_py[1][Rank(mask, i)] = samplerData.yp[i]

\* the second of two entries selected, away from the reference momentum
C5_Witness ==
    /\ pc = "returned"
    /\ format = "bdsim"
    /\ mask_CoulombScat = Some(<<FALSE, TRUE>>)
    /\ samplerData.xp = <<Real(1, 1000), Real(-3, 1000)>>
    /\ samplerData.p[2] = Real(228, 10)
    /\ delta_px = Some(<<Real(-3, 1000)>>)
    /\ delta_py = Some(<<samplerData.yp[2]>>)

\* C6: with format 'xsuite' get_angular_kicks returns xp * (1 + delta) and
\* yp * (1 + delta) for each selected primary, delta = p * 1e9 / P0C - 1; when
\* delta = 0 for every selected primary the result is the 'bdsim' result.
C6_BoostedKicks ==
    (format = "xsuite" /\ pc # "call") =>
        LET mask == mask_CoulombScat[1]
            delta(i) == Sub(Div(Mul(samplerData.p[i], GeV), P0C), One)
            raw == get_angular_kicks(samplerData, mask, "bdsim").value[1]
        IN  /\ pc = "returned"
            /\ Len(delta_px[1]) = Cardinality(Selected(mask))
            /\ Len(delta_py[1]) = Cardinality(Selected(mask))
            /\ \A i \in Selected(mask) :
                  /\ delta_px[1][Rank(mask, i)] =
                        Mul(samplerData.xp[i], Add(One, delta(i)))
                  /\ delta_py[1][Rank(mask, i)] =
                        Mul(samplerData.yp[i], Add(One, delta(i)))
            /\ (\A i \in Selected(mask) : Mul(samplerData.p[i], GeV) = P0C) =>
                  /\ delta_px[1] = raw.x
                  /\ delta_py[1] = raw.y

\* two selected entries at the reference momentum
C6_Witness ==
    /\ pc = "returned"
    /\ format = "xsuite"
    /\ mask_CoulombScat = Some(<<TRUE, TRUE>>)
    /\ samplerData.p = <<Real(456, 10), Real(456, 10)>>
    /\ samplerData.xp = <<Real(-3, 1000), Real(1, 1000)>>
    /\ delta_px = Some(samplerData.xp)

\* C7: any other format makes get_angular_kicks fail with an
\* unrecognized-format error; no kicks are returned.
C7_UnknownFormatFails ==
    (format \notin {"bdsim", "xsuite"} /\ pc # "call") =>
        /\ pc = "raised"
        /\ error = "ValueError: Format " \o format \o " not recognized."
        /\ delta_px = None
        /\ delta_py = None

C7_Witness ==
    /\ pc = "raised"
    /\ format = "BDSIM"
    /\ mask_CoulombScat = Some(<<TRUE, FALSE>>)
    /\ error = "ValueError: Format BDSIM not recognized."

\* C8 as stated: a completed run for gas g writes exactly one file, named
\* FCCee_z_{g}.json.
C8_Original ==
    pc = "done" => opened = <<"FCCee_z_" \o gas \o ".json">>

\* C8 amended: a completed run for gas g writes exactly one file, named
\* FCCee_z_CoulombScat_{g}.json, so runs for different gases write to
\* different files.
C8_OutputFileName ==
    pc = "done" =>
        /\ opened = <<"FCCee_z_CoulombScat_" \o gas \o ".json">>
        /\ DOMAIN files \subseteq {opened[1], "FCCee_z_CoulombScat_CO.json"}
        /\ files[opened[1]] = output_analysis[1]
        /\ \A g \in KnownGases \ {gas} :
              "FCCee_z_CoulombScat_" \o g \o ".json" # opened[1]

\* a run for H beside the file an earlier run for CO left
C8_Witness ==
    /\ pc = "done"
    /\ gas = "H"
    /\ DOMAIN files = {"FCCee_z_CoulombScat_H.json", "FCCee_z_CoulombScat_CO.json"}
    /\ files["FCCee_z_CoulombScat_CO.json"] = EarlierOutput

Complete(output) ==
    /\ DOMAIN output = {"Primaries", "Cross section", "Angular kicks"}
    /\ output["Primaries"] = primaries_dict[1]
    /\ output["Cross section"] = [CoulombScat |-> cross_section_CoulombScat[1]]
    /\ output["Angular kicks"].delta_px = delta_px[1]
    /\ output["Angular kicks"].delta_py = delta_py[1]

\* C9: the output file is opened and written only as the last step of main,
\* with all three blocks in the written object; a run that fails has created
\* or modified no file.
C9_WriteIsLast ==
    /\ [](pc = "failed" => opened = << >>)
    /\ [][(files' # files \/ opened' # opened) =>
            /\ pc = "save" /\ pc' = "done"
            /\ mask_CoulombScat # None /\ delta_px # None /\ delta_py # None
            /\ number_surface_density # None /\ cross_section_CoulombScat # None
            /\ output_analysis # None
            /\ Complete(output_analysis[1])
            /\ opened' = <<FileName(gas)>>
            /\ files' = (FileName(gas) :> output_analysis[1]) @@ files]_vars

\* a run stopped by an unknown gas, the earlier file as it was
C9_Witness ==
    /\ pc = "failed"
    /\ error = "ValueError: Gas XX not recognized."
    /\ files = EarlierFiles
    /\ opened = << >>
    /\ delta_px # None

\* C10: in the output, n_CoulombScat of 'Angular kicks' is the number of true
\* entries of the mask, whatever the weights, and delta_px and delta_py have
\* that many elements.
C10_KickCount ==
    output_analysis # None =>
        LET kicks == output_analysis[1]["Angular kicks"]
            n == Cardinality(Selected(mask_CoulombScat[1]))
        IN  /\ kicks.n_CoulombScat = n
            /\ Len(kicks.delta_px) = n
            /\ Len(kicks.delta_py) = n
            /\ pc = "done" => files[FileName(gas)] = output_analysis[1]

\* two of three primaries selected, their weights summing to 5
C10_Witness ==
    /\ pc = "done"
    /\ n_primaries = Some(3)
    /\ n_CoulombScat = Some(Real(5, 1))
    /\ output_analysis[1]["Angular kicks"].n_CoulombScat = 2
    /\ Len(output_analysis[1]["Angular kicks"].delta_px) = 2

====
